---- MODULE Spec2Model ----
(***************************************************************************)
(* Model of scripts/build_site.py: the static-site builder that renders    *)
(* the markdown chapters to HTML, rewrites the links between them and      *)
(* writes the index page.                                                  *)
(*                                                                         *)
(* Strings are sequences of one-character strings, so that the regular     *)
(* expressions, startswith, split and the slices of the source are         *)
(* computed character by character.                                        *)
(***************************************************************************)
EXTENDS Integers, Sequences, FiniteSets, TLC

VARIABLES
    text, fallback, title, tpc,          \* one call of extract_title
    parts, html, once, twice, lpc,       \* convert_links applied to a fragment
    chaptersDir, glossaryDir, referencesDir,  \* the markdown source directories
    readme,                              \* BASE_DIR / "README.md"
    assetsSrc, figuresSrc,               \* BASE_DIR / "assets", BASE_DIR / "figures"
    site,                                \* OUTPUT_DIR and the files below it
    pc,                                  \* position of main
    chapters, idx, year,                 \* locals of main
    clock,                               \* the UTC year of the system clock
    runs,                                \* invocations of main so far
    siteAtStart,                         \* site when main was last invoked
    last,                                \* the output and year of the run before,
                                         \* and whether it read the same sources
    edited                               \* a source changed since the last run

titleVars == <<text, fallback, title, tpc>>
linkVars == <<parts, html, once, twice, lpc>>
inputVars == <<chaptersDir, glossaryDir, referencesDir, readme, assetsSrc,
               figuresSrc>>
buildVars == <<inputVars, site, pc, chapters, idx, year, clock, runs,
               siteAtStart, last, edited>>
vars == <<titleVars, linkVars, buildVars>>

(***************************************************************************)
(* Bounds of the model.                                                    *)
(***************************************************************************)
MaxLines == 2        \* lines of a source text given to extract_title
MaxParts == 2        \* pieces of an HTML fragment given to convert_links
MaxRuns == 2         \* invocations of main
MaxYearTicks == 1    \* new years the clock passes

(***************************************************************************)
(* Strings.                                                                *)
(***************************************************************************)
Quote == "\""
Whitespace == {" ", "\t", "\n", "\r"}

IsAt(s, i, lit) ==
    /\ i >= 1
    /\ i + Len(lit) - 1 <= Len(s)
    /\ SubSeq(s, i, i + Len(lit) - 1) = lit

startswith(s, prefix) == IsAt(s, 1, prefix)

RECURSIVE Flatten(_)
Flatten(ss) == IF ss = <<>> THEN <<>> ELSE Head(ss) \o Flatten(Tail(ss))

\* str.strip(): leading and trailing whitespace removed
RECURSIVE lstrip(_)
lstrip(s) ==
    IF s # <<>> /\ Head(s) \in Whitespace THEN lstrip(Tail(s)) ELSE s

RECURSIVE rstrip(_)
rstrip(s) ==
    IF s # <<>> /\ s[Len(s)] \in Whitespace
    THEN rstrip(SubSeq(s, 1, Len(s) - 1))
    ELSE s

strip(s) == rstrip(lstrip(s))

\* str.splitlines(): the pieces between line breaks; a final line break
\* opens no further line
RECURSIVE splitlines(_)
splitlines(s) ==
    IF s = <<>> THEN <<>>
    ELSE LET brk == {k \in 1..Len(s) : s[k] = "\n"}
         IN IF brk = {} THEN <<s>>
            ELSE LET k == CHOOSE k \in brk : \A j \in brk : k <= j
                 IN <<SubSeq(s, 1, k - 1)>>
                        \o splitlines(SubSeq(s, k + 1, Len(s)))

\* length of the longest prefix of s made of the character c
RECURSIVE Run(_, _)
Run(s, c) == IF s # <<>> /\ Head(s) = c THEN 1 + Run(Tail(s), c) ELSE 0

Drop(s, n) == SubSeq(s, n + 1, Len(s))

(***************************************************************************)
(* extract_title                                                           *)
(***************************************************************************)
\* re.sub(r"^#+\\s*", "", stripped): the pattern of the source is a run of
\* '#', then a backslash, then any number of the letter s
TitleSub(stripped) ==
    LET h == Run(stripped, "#")
        rest == Drop(stripped, h)
    IN IF h >= 1 /\ rest # <<>> /\ Head(rest) = "\\"
       THEN Drop(Tail(rest), Run(Tail(rest), "s"))
       ELSE stripped

RECURSIVE TitleOfLines(_, _)
TitleOfLines(lines, fb) ==
    IF lines = <<>> THEN fb
    ELSE LET stripped == strip(Head(lines))
         IN IF startswith(stripped, <<"#">>)
            THEN TitleSub(stripped)
            ELSE TitleOfLines(Tail(lines), fb)

extract_title(txt, fb) == TitleOfLines(splitlines(txt), fb)

(***************************************************************************)
(* LINK_PATTERN and convert_links                                          *)
(***************************************************************************)
HREF_OPEN == <<"h", "r", "e", "f", "=", "\"">>
DOT_MD == <<".", "m", "d">>
DOT_HTML == <<".", "h", "t", "m", "l">>
HTTP == <<"h", "t", "t", "p", ":", "/", "/">>
HTTPS == <<"h", "t", "t", "p", "s", ":", "/", "/">>
CHAPTERS_PREFIX == <<"c", "h", "a", "p", "t", "e", "r", "s", "/">>

\* first index >= from that holds a double quote; Len(s) + 1 when none does
NextQuote(s, from) ==
    LET qs == {k \in from..Len(s) : s[k] = Quote}
    IN IF qs = {} THEN Len(s) + 1
       ELSE CHOOSE k \in qs : \A j \in qs : k <= j

\* the end of the pattern, (#[^"]*)?" , tried at index t: the index of the
\* closing quote, or 0 when it does not match
TailClose(s, t) ==
    IF t > Len(s) THEN 0
    ELSE IF s[t] = Quote THEN t
    ELSE IF s[t] = "#" /\ NextQuote(s, t + 1) <= Len(s)
         THEN NextQuote(s, t + 1)
    ELSE 0

NoMatch == [ok |-> FALSE, g1 |-> <<>>, g2 |-> <<>>, g0 |-> <<>>, stop |-> 0]

\* LINK_PATTERN tried at index i of s: group 1 is the shortest run of
\* non-quote characters after which the rest of the pattern matches
LINK_PATTERN(s, i) ==
    LET a == i + Len(HREF_OPEN)
        ends == {e \in a..(NextQuote(s, a) - 1) :
                    IsAt(s, e + 1, DOT_MD) /\ TailClose(s, e + 4) # 0}
    IN IF ~IsAt(s, i, HREF_OPEN) \/ ends = {} THEN NoMatch
       ELSE LET e == CHOOSE e \in ends : \A j \in ends : e <= j
                c == TailClose(s, e + 4)
            IN [ok |-> TRUE,
                g1 |-> SubSeq(s, a, e),
                g2 |-> SubSeq(s, e + 4, c - 1),
                g0 |-> SubSeq(s, i, c),
                stop |-> c]

\* LastSegment with a fault: the directory part of the reference is kept
LastSegmentKeepsDirs(href) == href

\* href.split("/")[-1]
RECURSIVE LastSegment(_)
LastSegment(href) ==
    IF \E k \in 1..Len(href) : href[k] = "/"
    THEN LastSegment(Tail(href))
    ELSE href

\* IsExternal with a fault: https:// is not recognised
IsExternalHttpOnly(href) == startswith(href, HTTP)

IsExternal(href) == startswith(href, HTTP) \/ startswith(href, HTTPS)

StripChapters(href) ==
    IF startswith(href, CHAPTERS_PREFIX) THEN Drop(href, 9) ELSE href

\* the replacement function of convert_links, given the match
_replace(m) ==
    IF IsExternal(m.g1) THEN m.g0
    ELSE HREF_OPEN \o LastSegment(StripChapters(m.g1)) \o DOT_HTML
            \o m.g2 \o <<Quote>>

\* LINK_PATTERN.sub(_replace, html), scanning from index i
RECURSIVE Sub(_, _)
Sub(s, i) ==
    IF i > Len(s) THEN <<>>
    ELSE LET m == LINK_PATTERN(s, i)
         IN IF m.ok THEN _replace(m) \o Sub(s, m.stop + 1)
            ELSE <<s[i]>> \o Sub(s, i + 1)

convert_links(h) == Sub(h, 1)

(***************************************************************************)
(* The file system.  A directory is [exists, files]; files maps the names  *)
(* in it to their contents.  The output tree keeps the files of OUTPUT_DIR *)
(* itself (pages) apart from those below ASSETS_DIR (assets, by relative   *)
(* path).                                                                  *)
(***************************************************************************)
NoFiles == [n \in {} |-> <<>>]
NoDir == [exists |-> FALSE, files |-> NoFiles]
NoReadme == [exists |-> FALSE, text |-> <<>>]
NoSite == [exists |-> FALSE, pages |-> NoFiles, assets |-> NoFiles]
NoLast ==
    [valid |-> FALSE, same |-> FALSE, pages |-> NoFiles, assets |-> NoFiles,
     year |-> 0]

\* g written over f
Merge(f, g) ==
    [x \in (DOMAIN f) \cup (DOMAIN g) |-> IF x \in DOMAIN g THEN g[x] ELSE f[x]]

TitleIdle ==
    /\ text = <<>> /\ fallback = <<>> /\ title = <<>> /\ tpc = "idle"

LinksIdle ==
    /\ parts = <<>> /\ html = <<>> /\ once = <<>> /\ twice = <<>>
    /\ lpc = "idle"

BuildIdle ==
    /\ chaptersDir = NoDir /\ glossaryDir = NoDir /\ referencesDir = NoDir
    /\ readme = NoReadme /\ assetsSrc = NoDir /\ figuresSrc = NoDir
    /\ site = NoSite /\ pc = "off" /\ chapters = <<>> /\ idx = 0
    /\ year = 0 /\ clock = 0 /\ runs = 0
    /\ siteAtStart = NoSite /\ last = NoLast /\ edited = FALSE

(***************************************************************************)
(* extract_title applied to one source text.                               *)
(***************************************************************************)
TitleLines == {
    <<"#", " ", "C", "h", "a", "p", "t", "e", "r", " ", "O", "n", "e">>,
    <<" ", " ", "#", "#", " ", "T", "w", "o", " ", " ">>,
    <<"i", "n", "t", "r", "o">>,
    <<"#", "\\", "s", "s", " ", "T">>,
    <<"#">>,
    <<"x", " ", "#", " ", "y">>,
    <<>> }

Fallbacks == { <<"f", "o", "o">>, <<"0", "1", "-", "a">> }

RECURSIVE JoinLines(_)
JoinLines(ls) ==
    IF ls = <<>> THEN <<>> ELSE Head(ls) \o <<"\n">> \o JoinLines(Tail(ls))

TitleTexts ==
    {JoinLines(ls) : ls \in UNION {[1..n -> TitleLines] : n \in 0..MaxLines}}

TitleInit ==
    /\ text \in TitleTexts
    /\ fallback \in Fallbacks
    /\ title = <<>>
    /\ tpc = "ready"
    /\ LinksIdle
    /\ BuildIdle

ExtractTitle ==
    /\ tpc = "ready"
    /\ title' = extract_title(text, fallback)
    /\ tpc' = "done"
    /\ UNCHANGED <<text, fallback, linkVars, buildVars>>

TitleNext == ExtractTitle

SpecTitle == TitleInit /\ [][TitleNext]_vars

(***************************************************************************)
(* convert_links applied to an HTML fragment, then to its own result.      *)
(***************************************************************************)
Attr(v) == HREF_OPEN \o v \o <<Quote>>

HrefValues == {
    <<"c", "h", "a", "p", "t", "e", "r", "s", "/", "f", "o", "o", ".", "m", "d", "#", "s", "e", "c", "2">>,
    <<".", ".", "/", "g", "l", "o", "s", "s", "a", "r", "y", "/", "b", "a", "r", ".", "m", "d">>,
    <<"a", ".", "m", "d">>,
    <<".", "m", "d">>,
    <<"h", "t", "t", "p", ":", "/", "/", "e", "/", "x", ".", "m", "d", "#", "y">>,
    <<"h", "t", "t", "p", "s", ":", "/", "/", "e", "/", "x", ".", "m", "d">>,
    <<"a", ".", "m", "d", "#", "x", ".", "m", "d">>,
    <<"b", ".", "h", "t", "m", "l", "#", "s">>,
    <<"c", "h", "a", "p", "t", "e", "r", "s", "/", "x", "/", "c", ".", "m", "d">>,
    <<"x", "#", "y", ".", "m", "d">> }

AttrPieces == {Attr(v) : v \in HrefValues}

TextPieces == {
    <<"<", "a", " ">>,
    <<">", "t", "<", "/", "a", ">">>,
    <<".", "m", "d">>,
    <<"#">> }

\* pieces that leave a quote or an attribute open
RawPieces == { <<Quote>>, HREF_OPEN }

Pieces == AttrPieces \cup TextPieces \cup RawPieces

Fragments == UNION {[1..n -> Pieces] : n \in 0..MaxParts}

LinksInit ==
    /\ parts \in Fragments
    /\ html = Flatten(parts)
    /\ once = <<>>
    /\ twice = <<>>
    /\ lpc = "input"
    /\ TitleIdle
    /\ BuildIdle

ConvertLinks ==
    /\ lpc = "input"
    /\ once' = convert_links(html)
    /\ lpc' = "once"
    /\ UNCHANGED <<parts, html, twice, titleVars, buildVars>>

ConvertAgain ==
    /\ lpc = "once"
    /\ twice' = convert_links(once)
    /\ lpc' = "twice"
    /\ UNCHANGED <<parts, html, once, titleVars, buildVars>>

LinksNext == ConvertLinks \/ ConvertAgain

SpecLinks == LinksInit /\ [][LinksNext]_vars

(***************************************************************************)
(* The markdown renderer, an external library: on the source texts of the  *)
(* model it is the table below (python-markdown with the toc extension).   *)
(***************************************************************************)
DocOne == [
    text |-> <<"#", " ", "O", "n", "e", "\n", "[", "g", "]", "(", "g", "/", "b", ".", "m", "d", ")">>,
    html |-> <<"<", "h", "1", " ", "i", "d", "=", "\"", "o", "n", "e", "\"", ">", "O", "n", "e", "<", "/", "h", "1", ">", "\n", "<", "p", ">", "<", "a", " ", "h", "r", "e", "f", "=", "\"", "g", "/", "b", ".", "m", "d", "\"", ">", "g", "<", "/", "a", ">", "<", "/", "p", ">">>]
DocIntro == [
    text |-> <<"i", "n", "t", "r", "o">>,
    html |-> <<"<", "p", ">", "i", "n", "t", "r", "o", "<", "/", "p", ">">>]
DocReadme == [
    text |-> <<"[", "a", "]", "(", "c", "h", "a", "p", "t", "e", "r", "s", "/", "a", ".", "m", "d", ")">>,
    html |-> <<"<", "p", ">", "<", "a", " ", "h", "r", "e", "f", "=", "\"", "c", "h", "a", "p", "t", "e", "r", "s", "/", "a", ".", "m", "d", "\"", ">", "a", "<", "/", "a", ">", "<", "/", "p", ">">>]
DocG == [
    text |-> <<"#", " ", "G">>,
    html |-> <<"<", "h", "1", " ", "i", "d", "=", "\"", "g", "\"", ">", "G", "<", "/", "h", "1", ">">>]

Docs == {DocOne, DocIntro, DocReadme, DocG}

markdown(md_text) == (CHOOSE d \in Docs : d.text = md_text).html

(***************************************************************************)
(* Paths: glob, sorted, stem.                                              *)
(***************************************************************************)
\* code points of the characters of the file names of the model
Ord(c) ==
    CASE c = "-" -> 45 [] c = "." -> 46 [] c = "a" -> 97 [] c = "b" -> 98
      [] c = "d" -> 100 [] c = "e" -> 101 [] c = "g" -> 103 [] c = "i" -> 105
      [] c = "m" -> 109 [] c = "n" -> 110 [] c = "r" -> 114 [] c = "t" -> 116
      [] c = "x" -> 120

\* str.__lt__ / __eq__: comparison by code point, a proper prefix first
RECURSIVE StrLeq(_, _)
StrLeq(a, b) ==
    IF a = <<>> THEN TRUE
    ELSE IF b = <<>> THEN FALSE
    ELSE IF Head(a) = Head(b) THEN StrLeq(Tail(a), Tail(b))
    ELSE Ord(Head(a)) < Ord(Head(b))

endswith(s, suffix) == IsAt(s, Len(s) - Len(suffix) + 1, suffix)

\* dir.glob("*.md"): the entries whose name ends in ".md"
glob(dir) == {n \in DOMAIN dir.files : endswith(n, DOT_MD)}

\* sorted with a fault: ordered by stem, not by file name
RECURSIVE SortedByStem(_)
SortedByStem(S) ==
    IF S = {} THEN <<>>
    ELSE LET m == CHOOSE m \in S :
                    \A o \in S : StrLeq(SubSeq(m, 1, Len(m) - 3),
                                        SubSeq(o, 1, Len(o) - 3))
         IN <<m>> \o SortedByStem(S \ {m})

\* sorted left out: the order glob happens to give, which differs from run
\* to run
RECURSIVE GlobOrderOfRun(_)
GlobOrderOfRun(S) ==
    IF S = {} THEN <<>>
    ELSE LET m == CHOOSE m \in S :
                    \A o \in S : IF runs % 2 = 1 THEN StrLeq(m, o)
                                                  ELSE StrLeq(o, m)
         IN <<m>> \o GlobOrderOfRun(S \ {m})

\* sorted(): the paths of one directory, ordered by file name
RECURSIVE sorted(_)
sorted(S) ==
    IF S = {} THEN <<>>
    ELSE LET m == CHOOSE m \in S : \A o \in S : StrLeq(m, o)
         IN <<m>> \o sorted(S \ {m})

\* PurePath.stem: the name up to its last dot, unless that dot is the first
\* or the last character
stem(name) ==
    LET dots == {k \in 1..Len(name) : name[k] = "."}
    IN IF dots = {} THEN name
       ELSE LET k == CHOOSE k \in dots : \A j \in dots : j <= k
            IN IF 1 < k /\ k < Len(name) THEN SubSeq(name, 1, k - 1) ELSE name

\* OutputName with a fault: the extension of the source is kept
OutputNameKeepsSuffix(name) == name \o DOT_HTML

OutputName(name) == stem(name) \o DOT_HTML

(***************************************************************************)
(* build_chapters                                                          *)
(***************************************************************************)
Dirs == [chapters |-> chaptersDir, glossary |-> glossaryDir,
         references |-> referencesDir]

load_markdown(source) == Dirs[source.dir].files[source.name]

Chapter(d, name) ==
    [source |-> [dir |-> d, name |-> name],
     title |-> extract_title(Dirs[d].files[name], stem(name)),
     output_name |-> OutputName(name)]

ChaptersOf(d) ==
    LET names == sorted(glob(Dirs[d]))
    IN [k \in 1..Len(names) |-> Chapter(d, names[k])]

additional_dirs == <<"glossary", "references">>

RECURSIVE AdditionalChapters(_)
AdditionalChapters(ds) ==
    IF ds = <<>> THEN <<>>
    ELSE (IF Dirs[Head(ds)].exists THEN ChaptersOf(Head(ds)) ELSE <<>>)
            \o AdditionalChapters(Tail(ds))

build_chapters == ChaptersOf("chapters") \o AdditionalChapters(additional_dirs)

(***************************************************************************)
(* Pages.  A page is the template it is formatted from and the values of   *)
(* the template's fields.                                                  *)
(***************************************************************************)
SITE_TITLE == <<"s", "i", "t", "e">>      \* the title of the index page
INDEX_HTML == <<"i", "n", "d", "e", "x", ".", "h", "t", "m", "l">>

render_chapter(chapter, yr) ==
    [template |-> "HTML_TEMPLATE",
     title |-> chapter.title,
     nav |-> "NAVIGATION_LINK",
     content |-> convert_links(markdown(load_markdown(chapter.source))),
     items |-> <<>>,
     year |-> yr]

load_markdown_readme == readme.text

\* IndexItems with a fault: the entries in reverse order
IndexItemsReversed(chs) ==
    [k \in 1..Len(chs) |->
        [href |-> chs[Len(chs) + 1 - k].output_name,
         text |-> chs[Len(chs) + 1 - k].title]]

\* the <li> entries of the chapter list, in the order of the chapters
IndexItems(chs) ==
    [k \in 1..Len(chs) |-> [href |-> chs[k].output_name, text |-> chs[k].title]]

render_index_from_readme(chs, yr) ==
    IF readme.exists
    THEN [template |-> "HTML_TEMPLATE",
          title |-> SITE_TITLE,
          nav |-> "",
          content |-> convert_links(markdown(load_markdown_readme)),
          items |-> <<>>,
          year |-> yr]
    ELSE [template |-> "INDEX_TEMPLATE",
          title |-> SITE_TITLE,
          nav |-> "",
          content |-> <<>>,
          items |-> IndexItems(chs),
          year |-> yr]

(***************************************************************************)
(* clean_output_dir and copy_static_assets                                 *)
(***************************************************************************)
\* clean_output_dir with a fault: the directories are made, nothing is removed
clean_output_dir_keeps(out) == [out EXCEPT !.exists = TRUE]

clean_output_dir(out) == [exists |-> TRUE, pages |-> NoFiles, assets |-> NoFiles]

\* shutil.copytree(src, ASSETS_DIR / sub, dirs_exist_ok=True)
copytree(src, sub, assets) ==
    Merge(assets, [q \in {<<sub>> \o p : p \in DOMAIN src.files}
                       |-> src.files[Tail(q)]])

copy_static_assets(assets) ==
    LET a1 == IF assetsSrc.exists THEN copytree(assetsSrc, "uploads", assets)
              ELSE assets
        a2 == IF figuresSrc.exists THEN copytree(figuresSrc, "figures", a1)
              ELSE a1
    IN Merge(a2, [q \in {<<"style.css">>} |-> "STYLE_CSS"])

write_file(pages, name, content) == Merge(pages, [n \in {name} |-> content])

(***************************************************************************)
(* The source trees main may be run on, and what OUTPUT_DIR may hold       *)
(* before the first run.                                                   *)
(***************************************************************************)
A_MD == <<"a", ".", "m", "d">>
A_B_MD == <<"a", "-", "b", ".", "m", "d">>
INDEX_MD == <<"i", "n", "d", "e", "x", ".", "m", "d">>
G_MD == <<"g", ".", "m", "d">>
N_TXT == <<"n", ".", "t", "x", "t">>
R_MD == <<"r", ".", "m", "d">>
OLD_HTML == <<"o", "l", "d", ".", "h", "t", "m", "l">>
A_HTML == <<"a", ".", "h", "t", "m", "l">>

ChapterNames == {A_MD, A_B_MD, INDEX_MD}
GlossaryNames == {A_MD, G_MD}
ReferenceNames == {R_MD}

ChapterText(n) == IF n = A_MD THEN DocOne.text ELSE DocIntro.text
GlossaryText(n) == IF n = A_MD THEN DocG.text ELSE DocIntro.text
ReferenceText(n) == DocOne.text

ChapterDirs ==
    {NoDir} \cup {[exists |-> TRUE, files |-> [n \in S |-> ChapterText(n)]] :
                     S \in SUBSET ChapterNames}
\* glossary/ always holds a file that is no markdown file
GlossaryDirs ==
    {NoDir} \cup {[exists |-> TRUE,
                   files |-> [n \in S \cup {N_TXT} |-> GlossaryText(n)]] :
                     S \in SUBSET GlossaryNames}
ReferenceDirs ==
    {NoDir} \cup {[exists |-> TRUE, files |-> [n \in S |-> ReferenceText(n)]] :
                     S \in SUBSET ReferenceNames}
Readmes == {NoReadme, [exists |-> TRUE, text |-> DocReadme.text]}
AssetDirs ==
    {NoDir, [exists |-> TRUE, files |-> [q \in {<<"logo.png">>} |-> "png"]]}
FigureDirs ==
    {NoDir, [exists |-> TRUE, files |-> [q \in {<<"f.svg">>} |-> "svg"]]}

StalePage ==
    [template |-> "stale", title |-> <<>>, nav |-> "", content |-> <<>>,
     items |-> <<>>, year |-> 0]
StaleSite ==
    [exists |-> TRUE,
     pages |-> [n \in {OLD_HTML, A_HTML, INDEX_HTML} |-> StalePage],
     assets |-> [q \in {<<"uploads", "gone.png">>, <<"style.css">>} |-> "stale"]]

Init ==
    /\ chaptersDir \in ChapterDirs
    /\ glossaryDir \in GlossaryDirs
    /\ referencesDir \in ReferenceDirs
    /\ readme \in Readmes
    /\ assetsSrc \in AssetDirs
    /\ figuresSrc \in FigureDirs
    /\ site \in {NoSite, StaleSite}
    /\ pc = "idle"
    /\ chapters = <<>> /\ idx = 0 /\ year = 0
    /\ clock = 0
    /\ runs = 0
    /\ siteAtStart = NoSite /\ last = NoLast /\ edited = FALSE
    /\ TitleIdle
    /\ LinksIdle

(***************************************************************************)
(* main, step by step.                                                     *)
(***************************************************************************)
\* the entry point is run (again)
Invoke ==
    /\ pc \in {"idle", "done", "fatal"}
    /\ runs < MaxRuns
    /\ runs' = runs + 1
    /\ pc' = "start"
    /\ siteAtStart' = site
    /\ last' = IF pc = "done"
               THEN [valid |-> TRUE, same |-> ~edited, pages |-> site.pages,
                     assets |-> site.assets, year |-> year]
               ELSE NoLast
    /\ edited' = FALSE
    /\ chapters' = <<>> /\ idx' = 0 /\ year' = 0
    /\ UNCHANGED <<inputVars, site, clock, titleVars, linkVars>>

\* CheckChaptersDir left out: main goes on without the test
CheckChaptersDirSkipped ==
    /\ pc = "start"
    /\ pc' = "clean"
    /\ UNCHANGED <<inputVars, site, chapters, idx, year, clock, runs,
                   siteAtStart, last, edited, titleVars, linkVars>>

\* if not CHAPTERS_DIR.exists(): raise SystemExit(...)
CheckChaptersDir ==
    /\ pc = "start"
    /\ pc' = IF chaptersDir.exists THEN "clean" ELSE "fatal"
    /\ UNCHANGED <<inputVars, site, chapters, idx, year, clock, runs,
                   siteAtStart, last, edited, titleVars, linkVars>>

CleanOutputDir ==
    /\ pc = "clean"
    /\ site' = clean_output_dir(site)
    /\ pc' = "assets"
    /\ UNCHANGED <<inputVars, chapters, idx, year, clock, runs,
                   siteAtStart, last, edited, titleVars, linkVars>>

CopyStaticAssets ==
    /\ pc = "assets"
    /\ site' = [site EXCEPT !.assets = copy_static_assets(@)]
    /\ pc' = "build"
    /\ UNCHANGED <<inputVars, chapters, idx, year, clock, runs,
                   siteAtStart, last, edited, titleVars, linkVars>>

\* chapters = build_chapters(); year = datetime.utcnow().year
BuildChapters ==
    /\ pc = "build"
    /\ IF ~chaptersDir.exists
       THEN /\ pc' = "fatal"
            /\ UNCHANGED <<chapters, idx, year, clock>>
       ELSE \E now \in clock..MaxYearTicks :
                /\ chapters' = build_chapters
                /\ year' = now
                /\ clock' = now
                /\ idx' = 1
                /\ pc' = "render"
    /\ UNCHANGED <<inputVars, site, runs, siteAtStart, last, edited,
                   titleVars, linkVars>>

\* one round of: for chapter in chapters
RenderChapter ==
    /\ pc = "render"
    /\ idx <= Len(chapters)
    /\ site' = [site EXCEPT !.pages =
                    write_file(@, chapters[idx].output_name,
                               render_chapter(chapters[idx], year))]
    /\ idx' = idx + 1
    /\ UNCHANGED <<inputVars, pc, chapters, year, clock, runs,
                   siteAtStart, last, edited, titleVars, linkVars>>

WriteIndex ==
    /\ pc = "render"
    /\ idx > Len(chapters)
    /\ site' = [site EXCEPT !.pages =
                    write_file(@, INDEX_HTML,
                               render_index_from_readme(chapters, year))]
    /\ pc' = "done"
    /\ UNCHANGED <<inputVars, chapters, idx, year, clock, runs,
                   siteAtStart, last, edited, titleVars, linkVars>>

\* between two runs a chapter source is deleted
RemoveSource ==
    /\ pc = "done"
    /\ runs < MaxRuns
    /\ \E n \in DOMAIN chaptersDir.files :
          chaptersDir' = [chaptersDir EXCEPT
                             !.files = [m \in (DOMAIN @) \ {n} |-> @[m]]]
    /\ edited' = TRUE
    /\ UNCHANGED <<glossaryDir, referencesDir, readme, assetsSrc, figuresSrc,
                   site, pc, chapters, idx, year, clock, runs, siteAtStart,
                   last, titleVars, linkVars>>

Next ==
    \/ Invoke
    \/ CheckChaptersDir
    \/ CleanOutputDir
    \/ CopyStaticAssets
    \/ BuildChapters
    \/ RenderChapter
    \/ WriteIndex
    \/ RemoveSource

Spec == Init /\ [][Next]_vars

(***************************************************************************)
(* Properties of extract_title (SpecTitle).                                *)
(***************************************************************************)
\* the heading text of a trimmed line: its leading run of '#' and the
\* whitespace after it removed
HeadingText(stripped) == lstrip(Drop(stripped, Run(stripped, "#")))

RECURSIVE ClaimedTitle(_, _)
ClaimedTitle(lines, fb) ==
    IF lines = <<>> THEN fb
    ELSE IF startswith(strip(Head(lines)), <<"#">>)
         THEN HeadingText(strip(Head(lines)))
         ELSE ClaimedTitle(Tail(lines), fb)

\* C1: the title is the text of the first line that, trimmed, begins with
\* '#', without its leading '#' run and the whitespace after it ('# Chapter
\* One' gives 'Chapter One'); with no such line it is the fallback name.
C1_TitleIsHeadingText ==
    tpc = "done" => title = ClaimedTitle(splitlines(text), fallback)

(***************************************************************************)
(* Properties of convert_links (SpecLinks).                                *)
(***************************************************************************)
Value(p) == SubSeq(p, Len(HREF_OPEN) + 1, Len(p) - 1)

\* a fragment whose attributes are complete and whose text holds no quote
WellFormed(ps) == \A k \in 1..Len(ps) : ps[k] \in AttrPieces \cup TextPieces

\* a URL is its path, up to the first '#', and its fragment identifier
FirstHash(v) ==
    LET hs == {k \in 1..Len(v) : v[k] = "#"}
    IN IF hs = {} THEN Len(v) + 1 ELSE CHOOSE k \in hs : \A j \in hs : k <= j
PathOf(v) == SubSeq(v, 1, FirstHash(v) - 1)
FragmentOf(v) == SubSeq(v, FirstHash(v), Len(v))

BeginsExternal(v) == startswith(v, HTTP) \/ startswith(v, HTTPS)

\* a reference to a markdown file: the path ends in '.md'
IsMdReference(v) == ~BeginsExternal(v) /\ endswith(PathOf(v), DOT_MD)

\* the same, with a name before the '.md'
IsNamedMdReference(v) == IsMdReference(v) /\ Len(PathOf(v)) > Len(DOT_MD)

\* no '.md' of v ends v or stands before a '#'
HasNoMdEnd(v) ==
    \A k \in 1..Len(v) :
        IsAt(v, k, DOT_MD) => (k + 3 <= Len(v) /\ v[k + 3] # "#")

\* the part of a path after its last '/'
FinalSegment(path) ==
    LET sl == {k \in 1..Len(path) : path[k] = "/"}
    IN IF sl = {} THEN path
       ELSE SubSeq(path, (CHOOSE k \in sl : \A j \in sl : j <= k) + 1, Len(path))

\* what the claim says an href value is rewritten to
Rewritten(v) ==
    FinalSegment(SubSeq(PathOf(v), 1, Len(PathOf(v)) - Len(DOT_MD)))
        \o DOT_HTML \o FragmentOf(v)

\* C2 as stated: in a well-formed fragment every href that is not external
\* and whose path ends in '.md' stands in the result as the final path
\* segment, '.html' and the unchanged fragment identifier, whatever pieces
\* stand around it.
C2_EveryMdHrefRewritten ==
    (lpc # "input" /\ WellFormed(parts))
    => once = Flatten([k \in 1..Len(parts) |->
                 IF parts[k] \in AttrPieces /\ IsMdReference(Value(parts[k]))
                 THEN Attr(Rewritten(Value(parts[k])))
                 ELSE convert_links(parts[k])])

\* C2 amended: the same for every href with at least one character before
\* the '.md' of its path (an href of just '.md' is left as it is).
C2_NamedMdHrefRewritten ==
    (lpc # "input" /\ WellFormed(parts))
    => /\ once = Flatten([k \in 1..Len(parts) |->
                    IF parts[k] \in AttrPieces
                       /\ IsNamedMdReference(Value(parts[k]))
                    THEN Attr(Rewritten(Value(parts[k])))
                    ELSE convert_links(parts[k])])
       /\ \A k \in 1..Len(parts) :
              parts[k] = Attr(DOT_MD) => convert_links(parts[k]) = parts[k]

\* 'chapters/foo.md#sec2' has become 'foo.html#sec2' and
\* '../glossary/bar.md' has become 'bar.html'
C2_Witness ==
    /\ lpc = "once"
    /\ parts = <<Attr(<<"c", "h", "a", "p", "t", "e", "r", "s", "/", "f", "o", "o", ".", "m", "d", "#", "s", "e", "c", "2">>),
                 Attr(<<".", ".", "/", "g", "l", "o", "s", "s", "a", "r", "y", "/", "b", "a", "r", ".", "m", "d">>)>>
    /\ once = Attr(<<"f", "o", "o", ".", "h", "t", "m", "l", "#", "s", "e", "c", "2">>)
                \o Attr(<<"b", "a", "r", ".", "h", "t", "m", "l">>)

\* C3: convert_links applied to its own result changes nothing.
C3_Idempotent == lpc = "twice" => twice = once

IsInfix(p, s) ==
    \E i \in 1..(Len(s) - Len(p) + 1) : SubSeq(s, i, i + Len(p) - 1) = p

\* the external href attributes of h, each from 'href="' to its closing quote
ExternalAttrs(h) ==
    {SubSeq(h, i, NextQuote(h, i + Len(HREF_OPEN))) :
        i \in {j \in 1..Len(h) :
                  /\ IsAt(h, j, HREF_OPEN)
                  /\ BeginsExternal(Drop(h, j + Len(HREF_OPEN) - 1))
                  /\ NextQuote(h, j + Len(HREF_OPEN)) <= Len(h)}}

\* the piece is no href that ends in '.md' or '.md#...', or it is external
Kept(p) ==
    p \in AttrPieces =>
        BeginsExternal(Value(p)) \/ HasNoMdEnd(Value(p))

\* C8: every href beginning with http:// or https:// is in the result
\* character for character, '.md' or not; and in a well-formed fragment the
\* result differs from the input only where an '.md' href stood.
C8_ExternalAndRestUntouched ==
    lpc # "input" =>
        /\ \A e \in ExternalAttrs(html) : IsInfix(e, once)
        /\ WellFormed(parts) =>
              once = Flatten([k \in 1..Len(parts) |->
                        IF Kept(parts[k]) THEN parts[k]
                        ELSE convert_links(parts[k])])
        /\ (\A k \in 1..Len(html) : IsAt(html, k, DOT_MD) =>
                (k + 3 <= Len(html) /\ html[k + 3] \notin {"#", Quote}))
              => once = html

\* an external '.md#y' href kept beside an internal one that was rewritten
C8_Witness ==
    /\ lpc = "once"
    /\ parts = <<Attr(<<"h", "t", "t", "p", ":", "/", "/", "e", "/", "x", ".", "m", "d", "#", "y">>),
                 Attr(<<"a", ".", "m", "d">>)>>
    /\ once = Attr(<<"h", "t", "t", "p", ":", "/", "/", "e", "/", "x", ".", "m", "d", "#", "y">>)
                \o Attr(<<"a", ".", "h", "t", "m", "l">>)

(***************************************************************************)
(* Properties of main (Spec).                                              *)
(***************************************************************************)
\* the chapters variable still describes the source directories
Discovered == pc = "render" \/ (pc = "done" /\ ~edited)

\* a file name without its '.md'
BaseName(n) == SubSeq(n, 1, Len(n) - Len(DOT_MD))

MdNames(dir) == {n \in DOMAIN dir.files : endswith(n, DOT_MD)}

\* lexicographic order of two different names: at the first place where
\* they differ a has ended or holds the smaller character
LexBefore(a, b) ==
    \E j \in 1..(Len(b)) :
        /\ \A i \in 1..(j - 1) : i <= Len(a) /\ a[i] = b[i]
        /\ j > Len(a) \/ (j <= Len(a) /\ Ord(a[j]) < Ord(b[j]))

DirRank(d) == CASE d = "chapters" -> 1 [] d = "glossary" -> 2
                [] d = "references" -> 3

AllSources ==
    {[dir |-> d, name |-> n] :
        d \in {"chapters", "glossary", "references"}, n \in ChapterNames
            \cup GlossaryNames \cup ReferenceNames}

\* the markdown files of the source directories that exist
PresentSources ==
    {s \in AllSources : Dirs[s.dir].exists /\ s.name \in MdNames(Dirs[s.dir])}

\* C9: the chapters are the '*.md' files of chapters/, then of glossary/,
\* then of references/, each directory in lexicographic file name order; a
\* missing auxiliary directory adds nothing; each output name is the base
\* name plus '.html'.
C9_DiscoveryOrder ==
    Discovered =>
        /\ {chapters[k].source : k \in 1..Len(chapters)} = PresentSources
        /\ Len(chapters) = Cardinality(PresentSources)
        /\ \A p, q \in 1..Len(chapters) : p < q =>
              \/ DirRank(chapters[p].source.dir) < DirRank(chapters[q].source.dir)
              \/ /\ chapters[p].source.dir = chapters[q].source.dir
                 /\ LexBefore(chapters[p].source.name, chapters[q].source.name)
        /\ \A k \in 1..Len(chapters) :
              chapters[k].output_name
                  = BaseName(chapters[k].source.name) \o DOT_HTML

\* glossary/ is missing: chapters/a-b.md, chapters/a.md, references/r.md
C9_Witness ==
    /\ pc = "render"
    /\ ~glossaryDir.exists
    /\ Len(chapters) = 3
    /\ chapters[1].source = [dir |-> "chapters", name |-> A_B_MD]
    /\ chapters[2].source = [dir |-> "chapters", name |-> A_MD]
    /\ chapters[3].source = [dir |-> "references", name |-> R_MD]

\* the page render_chapter gives for chapters/<n>
ChapterPage(n) == render_chapter(Chapter("chapters", n), year)

\* C4 as stated: after a successful run every markdown file of chapters/
\* has its own <base name>.html, holding that chapter's rendered page,
\* whatever the names and whatever glossary/, references/ and README.md hold.
C4_EveryChapterHasItsPage ==
    (pc = "done" /\ ~edited) =>
        /\ \A n \in MdNames(chaptersDir) :
              /\ BaseName(n) \o DOT_HTML \in DOMAIN site.pages
              /\ site.pages[BaseName(n) \o DOT_HTML] = ChapterPage(n)
        /\ \A n, m \in MdNames(chaptersDir) :
              n # m => BaseName(n) \o DOT_HTML # BaseName(m) \o DOT_HTML

\* the output of chapters/<n> is written by nothing else
Unshadowed(n) ==
    /\ BaseName(n) \o DOT_HTML # INDEX_HTML
    /\ ~(glossaryDir.exists /\ n \in MdNames(glossaryDir))
    /\ ~(referencesDir.exists /\ n \in MdNames(referencesDir))

\* C4 amended: every markdown file of chapters/ has its own <base
\* name>.html; it holds that chapter's rendered page unless the base name is
\* 'index' or glossary/ or references/ holds a file of the same name.
C4_UnshadowedChapterHasItsPage ==
    (pc = "done" /\ ~edited) =>
        /\ \A n \in MdNames(chaptersDir) :
              /\ BaseName(n) \o DOT_HTML \in DOMAIN site.pages
              /\ Unshadowed(n) =>
                    site.pages[BaseName(n) \o DOT_HTML] = ChapterPage(n)
        /\ \A n, m \in MdNames(chaptersDir) :
              n # m => BaseName(n) \o DOT_HTML # BaseName(m) \o DOT_HTML

\* chapters/a.md, glossary/g.md and README.md are there, and a.html holds
\* the page of chapters/a.md
C4_Witness ==
    /\ pc = "done" /\ ~edited
    /\ MdNames(chaptersDir) = {A_MD, A_B_MD}
    /\ glossaryDir.exists /\ G_MD \in MdNames(glossaryDir)
    /\ readme.exists
    /\ site.pages[A_HTML] = ChapterPage(A_MD)

\* C5: with chapters/ missing main ends in the fatal error and the output
\* tree is as it was when main was invoked: not created, not deleted, no
\* file written.
C5_MissingChaptersDirIsFatal ==
    /\ (runs > 0 /\ pc # "start" /\ ~chaptersDir.exists) => pc = "fatal"
    /\ pc = "fatal" => (~chaptersDir.exists /\ site = siteAtStart)

\* the fatal error with an output directory that was there before
C5_Witness == pc = "fatal" /\ site = StaleSite

ReadmeBodyRewritten ==
    <<"<", "p", ">", "<", "a", " ", "h", "r", "e", "f", "=", "\"", "a", ".", "h", "t", "m", "l", "\"", ">", "a", "<", "/", "a", ">", "<", "/", "p", ">">>

\* C6: with README.md, index.html holds the rendered README with its links
\* rewritten, no breadcrumb and no chapter list; without it, one <li> entry
\* per discovered chapter (href its output name, text its title), in the
\* order of discovery.
C6_IndexPage ==
    pc = "done" =>
        LET ix == site.pages[INDEX_HTML] IN
        IF readme.exists
        THEN /\ ix.template = "HTML_TEMPLATE"
             /\ ix.content = ReadmeBodyRewritten
             /\ ix.nav = ""
             /\ ix.items = <<>>
        ELSE /\ ix.template = "INDEX_TEMPLATE"
             /\ Len(ix.items) = Len(chapters)
             /\ \A k \in 1..Len(chapters) :
                   /\ ix.items[k].href = chapters[k].output_name
                   /\ ix.items[k].text = chapters[k].title

\* no README.md: the list has the entries of three chapters, in order
C6_Witness ==
    /\ pc = "done" /\ ~readme.exists
    /\ Len(chapters) = 3
    /\ site.pages[INDEX_HTML].items[1].href
           = <<"a", "-", "b", ".", "h", "t", "m", "l">>
    /\ site.pages[INDEX_HTML].items[2].href = A_HTML

\* C7 as stated: a second run on unchanged sources leaves the output tree
\* of the first run, file for file.
C7_RebuildIsIdentical ==
    (pc = "done" /\ last.valid /\ last.same) =>
        (site.pages = last.pages /\ site.assets = last.assets)

\* C7 amended: the same when both runs read the same UTC year from the
\* clock.
C7_RebuildInSameYearIsIdentical ==
    (pc = "done" /\ last.valid /\ last.same /\ year = last.year) =>
        (site.pages = last.pages /\ site.assets = last.assets)

\* a second run in the same year, over two chapters and no README.md
C7_Witness ==
    /\ pc = "done" /\ last.valid /\ last.same /\ year = last.year
    /\ ~readme.exists
    /\ Len(chapters) >= 2
    /\ site.pages = last.pages

UploadPaths ==
    IF assetsSrc.exists THEN {<<"uploads">> \o q : q \in DOMAIN assetsSrc.files}
    ELSE {}
FigurePaths ==
    IF figuresSrc.exists THEN {<<"figures">> \o q : q \in DOMAIN figuresSrc.files}
    ELSE {}

\* C10: after a successful run the output tree holds index.html, the pages
\* of the chapters of this run, assets/style.css and the copied uploads and
\* figures, and nothing it held before; the tree is emptied before the first
\* write of the run.
C10_OutputRecreated ==
    /\ pc = "assets" => (site.pages = NoFiles /\ site.assets = NoFiles)
    /\ pc \in {"assets", "build", "render", "done"} =>
          /\ \A n \in DOMAIN site.pages : site.pages[n].template # "stale"
          /\ \A q \in DOMAIN site.assets : site.assets[q] # "stale"
    /\ pc = "done" =>
          /\ DOMAIN site.pages =
                {INDEX_HTML} \cup {chapters[k].output_name : k \in 1..Len(chapters)}
          /\ DOMAIN site.assets =
                {<<"style.css">>} \cup UploadPaths \cup FigurePaths

\* the run before wrote a page that this run, over fewer sources, did not
C10_Witness ==
    /\ pc = "done" /\ last.valid
    /\ (DOMAIN site.pages) # (DOMAIN last.pages)
    /\ (DOMAIN site.pages) \subseteq (DOMAIN last.pages)

====
